---- MODULE Spec2Model ----
(***************************************************************************)
(* RFC 2833 DTMF detection of vertan/diago: media.RTPDtmfReader            *)
(* (src/media/rtp_dtmf_reader.go), driven the way its tests drive it.      *)
(*                                                                         *)
(*   Spec      the detector fed by direct processDTMFEvent calls and       *)
(*             polled with ReadDTMF in any interleaving (the test loops)   *)
(*   SpecRead  the streaming adapter: RTPDtmfReader.Read called over a     *)
(*             wrapped reader that delivers packets and errors             *)
(***************************************************************************)
EXTENDS Integers, Sequences, FiniteSets, TLC

\* ---------------------------------------------------------------- bounds
\* Largest number of latch writes (emissions) a behaviour records.
MaxEmit == 3

\* ------------------------------------------------------ program constants
\* lastEvent of a fresh reader ("Initialize to invalid event number").
InvalidEvent == 255
\* Codec{PayloadType: 101}: the negotiated telephone-event payload type.
DTMFPayloadType == 101
\* Minimum wire size of a telephone-event payload.
DTMFMinSize == 4

\* Event bytes, RTP timestamps and durations the inputs are drawn from.  0 is
\* the Event of the zero-value DTMFEvent, 255 and timestamp 0 are the values
\* a fresh reader holds.
Events == {0, 1, InvalidEvent}
Timestamps == {0, 1000, 2000}
Durations == {160, 800}

DTMFEvents ==
    [Event : Events, EndOfEvent : BOOLEAN, Volume : {10}, Duration : Durations]

\* Sizes of the buffers a caller hands to Read, payload types of the packets
\* the wrapped reader delivers (0: audio), and the errors it returns.
BufSizes == {3, 5}
PayloadTypes == {0, DTMFPayloadType}
ReadErrors == {"nil", "EOF"}
ReadTimestamps == {0, 1000}

\* The minDuration arguments NewRTPDTMFReader is called with (none, one, two).
MinDurations == {<<>>, <<480>>, <<160, 320>>}

\* ------------------------------------------------------------- variables
VARIABLES
    w,         \* the RTPDtmfReader: codec, lastEvent, lastTimestamp,
               \* endProcessed, dtmf, dtmfSet
    hdr,       \* w.packetReader.PacketHeader: PayloadType, Timestamp
    b,         \* the caller's buffer after the last Read
    ret,       \* what the last Read returned: n, err
    inner,     \* what the wrapped reader's Read returned to that call: n, err, b
    op,        \* the last call made on the reader, with what it returned
    emitted,   \* the rune of each event for which processDTMFEvent wrote the latch
    unread,    \* how many of them were written since the last ReadDTMF
    detected,  \* runes ReadDTMF returned with isSet = true (the tests' `detected`)
    polled,    \* every processDTMFEvent so far was followed by exactly one ReadDTMF
    track,     \* where the packet sequence so far stands as a sequence of presses
    pressed,   \* the Event of each press begun so far
    run,       \* the press lastEvent/lastTimestamp name: whether its first packet
               \* was terminal (imm), how often it wrote the latch (emits), whether
               \* a terminal packet of it came (ended) and a continuation packet
               \* after that (late)
    first,     \* the first press the reader was fed, while no other packet came
    w2,        \* SpecPair: a second RTPDtmfReader, fed the same packets as w
               \* with other durations and volumes
    seen,      \* SpecLate: the (Event, timestamp) pairs that wrote the latch
    rd,        \* SpecConc: the goroutine inside ReadDTMF: pc, the values it
               \* evaluated, and the latch write its w.dtmfSet read observed
    wr,        \* SpecConc: the goroutine inside processDTMFEvent: pc, rune
    ringtones, \* SpecRing: the sync.Map ringtones, uuid to stored buffer
    calls,     \* SpecRing: each goroutine's loadRingTonePCM call: pc, codec,
               \* pcmBytes, what it returned
    generated, \* SpecRing: how often generateRingTonePCM ran, per uuid
    bg         \* SpecPlay: one PlayBackground: the media session, ctx, wg,
               \* the playback goroutine and the stop function

vars == <<w, hdr, b, ret, inner, op, emitted, unread, detected, polled, track,
          pressed, run, first, w2, seen, rd, wr, ringtones, calls, generated, bg>>

\* What the calls on an RTPDtmfReader leave alone.
ringvars == <<ringtones, calls, generated, bg>>

\* What the calls of Spec and SpecRead leave alone.
others == <<w2, seen, rd, wr>>

\* ------------------------------------------------------------ the codec
\* digitToSymbol: 0-9, '*', '#', 'A'-'D'; anything else the fallback rune 0.
DTMFToRune(dtmf) ==
    IF dtmf <= 9 THEN 48 + dtmf
    ELSE IF dtmf = 10 THEN 42
    ELSE IF dtmf = 11 THEN 35
    ELSE IF dtmf <= 15 THEN 65 + (dtmf - 12)
    ELSE 0

\* ev := DTMFEvent{}
ZeroEvent == [Event |-> 0, EndOfEvent |-> FALSE, Volume |-> 0, Duration |-> 0]

\* DTMFDecode(payload, &ev): fills ev from the 4-byte wire form; fewer than 4
\* bytes is an error and ev is left as it was.
DTMFDecode(payload, ev) ==
    IF Len(payload) < DTMFMinSize
    THEN [err |-> "short", ev |-> ev]
    ELSE [err |-> "nil",
          ev  |-> [Event      |-> payload[1],
                   EndOfEvent |-> (payload[2] \div 128) = 1,
                   Volume     |-> payload[2] % 128,
                   Duration   |-> payload[3] * 256 + payload[4]]]

\* The wire form of an event (DTMFEncode), used to build input packets.
DTMFEncode(ev) ==
    << ev.Event,
       (IF ev.EndOfEvent THEN 128 ELSE 0) + ev.Volume,
       ev.Duration \div 256,
       ev.Duration % 256 >>

\* ------------------------------------------------------------ the reader
\* a fresh reader that counts the end of the (invalid) last event as processed
NewRTPDTMFReader_Reported(codec, minDuration) ==
    [codec         |-> codec,
     lastEvent     |-> InvalidEvent,
     lastTimestamp |-> 0,
     endProcessed  |-> TRUE,
     dtmf          |-> 0,
     dtmfSet       |-> FALSE]

\* NewRTPDTMFReader(codec, packetReader, reader, minDuration...)
NewRTPDTMFReader(codec, minDuration) ==
    [codec         |-> codec,
     lastEvent     |-> InvalidEvent,
     lastTimestamp |-> 0,
     endProcessed  |-> FALSE,
     dtmf          |-> 0,
     dtmfSet       |-> FALSE]

\* --- variants of processDTMFEvent, each one slip away from the code ---
\* the third branch (duplicate end event) writes the latch again
processDTMFEvent_ReEmit(r, h, ev) ==
    LET isNewEvent == r.lastEvent # ev.Event \/ r.lastTimestamp # h.Timestamp
        r1 == [r EXCEPT !.lastEvent = ev.Event, !.lastTimestamp = h.Timestamp]
    IN  IF ev.EndOfEvent
        THEN [w |-> [r1 EXCEPT !.dtmf = DTMFToRune(ev.Event), !.dtmfSet = TRUE,
                               !.endProcessed = TRUE],
              emit |-> TRUE]
        ELSE [w |-> [r1 EXCEPT !.endProcessed = IF isNewEvent THEN FALSE ELSE @],
              emit |-> FALSE]

\* isNewEvent compares the digit only, not the timestamp
processDTMFEvent_DigitOnly(r, h, ev) ==
    LET isNewEvent == r.lastEvent # ev.Event
        Emit(x) == [x EXCEPT !.dtmf = DTMFToRune(ev.Event), !.dtmfSet = TRUE,
                             !.endProcessed = TRUE]
        r1 == [r EXCEPT !.lastEvent = ev.Event, !.lastTimestamp = h.Timestamp,
                        !.endProcessed = IF isNewEvent THEN FALSE ELSE @]
    IN  IF ev.EndOfEvent /\ ~r1.endProcessed
        THEN [w |-> Emit(r1), emit |-> TRUE]
        ELSE [w |-> r1, emit |-> FALSE]

\* a new event that is already an end event only primes the state
processDTMFEvent_NoImmediateEnd(r, h, ev) ==
    LET isNewEvent == r.lastEvent # ev.Event \/ r.lastTimestamp # h.Timestamp
    IN  IF isNewEvent
        THEN [w |-> [r EXCEPT !.lastEvent = ev.Event, !.lastTimestamp = h.Timestamp,
                              !.endProcessed = FALSE],
              emit |-> FALSE]
        ELSE IF ev.EndOfEvent /\ ~r.endProcessed
        THEN [w |-> [r EXCEPT !.dtmf = DTMFToRune(ev.Event), !.dtmfSet = TRUE,
                              !.endProcessed = TRUE],
              emit |-> TRUE]
        ELSE [w |-> r, emit |-> FALSE]

\* the retired minimum-duration gate: an end event shorter than 480 is dropped
processDTMFEvent_MinDuration(r, h, ev) ==
    LET isNewEvent == r.lastEvent # ev.Event \/ r.lastTimestamp # h.Timestamp
        r1 == [r EXCEPT !.lastEvent = ev.Event, !.lastTimestamp = h.Timestamp,
                        !.endProcessed = IF isNewEvent THEN FALSE ELSE @]
    IN  IF ev.EndOfEvent /\ ~r1.endProcessed /\ ev.Duration >= 480
        THEN [w |-> [r1 EXCEPT !.dtmf = DTMFToRune(ev.Event), !.dtmfSet = TRUE,
                               !.endProcessed = TRUE],
              emit |-> TRUE]
        ELSE [w |-> r1, emit |-> FALSE]

\* the latch is written only when it holds no unread symbol
processDTMFEvent_KeepUnread(r, h, ev) ==
    LET isNewEvent == r.lastEvent # ev.Event \/ r.lastTimestamp # h.Timestamp
        r1 == [r EXCEPT !.lastEvent = ev.Event, !.lastTimestamp = h.Timestamp,
                        !.endProcessed = IF isNewEvent THEN FALSE ELSE @]
    IN  IF ev.EndOfEvent /\ ~r1.endProcessed
        THEN [w |-> [r1 EXCEPT !.dtmf = IF r.dtmfSet THEN @ ELSE DTMFToRune(ev.Event),
                               !.dtmfSet = TRUE,
                               !.endProcessed = TRUE],
              emit |-> TRUE]
        ELSE [w |-> r1, emit |-> FALSE]

\* a new event leaves endProcessed as it was
processDTMFEvent_NoReset(r, h, ev) ==
    LET r1 == [r EXCEPT !.lastEvent = ev.Event, !.lastTimestamp = h.Timestamp]
    IN  IF ev.EndOfEvent /\ ~r1.endProcessed
        THEN [w |-> [r1 EXCEPT !.dtmf = DTMFToRune(ev.Event), !.dtmfSet = TRUE,
                               !.endProcessed = TRUE],
              emit |-> TRUE]
        ELSE [w |-> r1, emit |-> FALSE]

\* a continuation packet of the current event clears endProcessed
processDTMFEvent_RearmOnContinuation(r, h, ev) ==
    LET isNewEvent == r.lastEvent # ev.Event \/ r.lastTimestamp # h.Timestamp
        r1 == [r EXCEPT !.lastEvent = ev.Event, !.lastTimestamp = h.Timestamp,
                        !.endProcessed = IF isNewEvent \/ ~ev.EndOfEvent
                                         THEN FALSE ELSE @]
    IN  IF ev.EndOfEvent /\ ~r1.endProcessed
        THEN [w |-> [r1 EXCEPT !.dtmf = DTMFToRune(ev.Event), !.dtmfSet = TRUE,
                               !.endProcessed = TRUE],
              emit |-> TRUE]
        ELSE [w |-> r1, emit |-> FALSE]

\* the digit is reported when the event starts, not when it ends
processDTMFEvent_EmitOnStart(r, h, ev) ==
    LET isNewEvent == r.lastEvent # ev.Event \/ r.lastTimestamp # h.Timestamp
        r1 == [r EXCEPT !.lastEvent = ev.Event, !.lastTimestamp = h.Timestamp,
                        !.endProcessed = IF isNewEvent THEN FALSE ELSE @]
    IN  IF isNewEvent \/ (ev.EndOfEvent /\ ~r1.endProcessed)
        THEN [w |-> [r1 EXCEPT !.dtmf = DTMFToRune(ev.Event), !.dtmfSet = TRUE,
                               !.endProcessed = TRUE],
              emit |-> TRUE]
        ELSE [w |-> r1, emit |-> FALSE]

\* processDTMFEvent(ev) on reader r with packet header h.  Returns the reader
\* after the call and whether the call wrote the latch (lines 79-80, 86-87).
processDTMFEvent(r, h, ev) ==
    LET timestamp  == h.Timestamp
        isNewEvent == r.lastEvent # ev.Event \/ r.lastTimestamp # timestamp
        \* w.dtmf = DTMFToRune(ev.Event); w.dtmfSet = true; w.endProcessed = true
        Emit(x) == [x EXCEPT !.dtmf = DTMFToRune(ev.Event),
                             !.dtmfSet = TRUE,
                             !.endProcessed = TRUE]
    IN  IF isNewEvent
        THEN LET r1 == [r EXCEPT !.lastEvent = ev.Event,
                                 !.lastTimestamp = timestamp,
                                 !.endProcessed = FALSE]
             IN  IF ev.EndOfEvent
                 THEN [w |-> Emit(r1), emit |-> TRUE]
                 ELSE [w |-> r1, emit |-> FALSE]
        ELSE IF ev.EndOfEvent /\ ~r.endProcessed
        THEN [w |-> Emit(r), emit |-> TRUE]
        ELSE IF ev.EndOfEvent /\ r.endProcessed
        THEN [w |-> r, emit |-> FALSE]
        ELSE [w |-> r, emit |-> FALSE]

\* --- variants of ReadDTMF ---
\* the deferred clear is missing
ReadDTMF_NoClear(r) ==
    [w |-> r, dtmf |-> r.dtmf, isSet |-> r.dtmfSet]

\* the flag is cleared before the return values are evaluated
ReadDTMF_ClearFirst(r) ==
    [w |-> [r EXCEPT !.dtmfSet = FALSE], dtmf |-> r.dtmf, isSet |-> FALSE]

\* the deferred function clears endProcessed along with dtmfSet
ReadDTMF_ResetsEnd(r) ==
    [w |-> [r EXCEPT !.dtmfSet = FALSE, !.endProcessed = FALSE],
     dtmf |-> r.dtmf, isSet |-> r.dtmfSet]

\* the deferred function clears the rune along with dtmfSet
ReadDTMF_ClearsRune(r) ==
    [w |-> [r EXCEPT !.dtmfSet = FALSE, !.dtmf = 0],
     dtmf |-> r.dtmf, isSet |-> r.dtmfSet]

\* ReadDTMF(): return w.dtmf, w.dtmfSet; deferred w.dtmfSet = false.
ReadDTMF(r) ==
    [w |-> [r EXCEPT !.dtmfSet = FALSE], dtmf |-> r.dtmf, isSet |-> r.dtmfSet]

\* --- variants of Read ---
\* the payload type is not checked: every packet is decoded as DTMF
Read_NoPayloadTypeCheck(r, h, buf, n, err) ==
    IF err # "nil"
    THEN [w |-> r, b |-> buf, n |-> n, err |-> err, decoded |-> FALSE,
          decodeErr |-> "nil", processed |-> FALSE, ev |-> ZeroEvent, emit |-> FALSE]
    ELSE LET d == DTMFDecode(buf, ZeroEvent)
             p == processDTMFEvent(r, h, d.ev)
         IN  [w |-> p.w, b |-> buf, n |-> n, err |-> "nil", decoded |-> TRUE,
              decodeErr |-> d.err, processed |-> TRUE, ev |-> d.ev, emit |-> p.emit]

\* a decode error is returned to the caller
Read_ReturnDecodeError(r, h, buf, n, err) ==
    IF err # "nil" \/ h.PayloadType # r.codec.PayloadType
    THEN [w |-> r, b |-> buf, n |-> n, err |-> err, decoded |-> FALSE,
          decodeErr |-> "nil", processed |-> FALSE, ev |-> ZeroEvent, emit |-> FALSE]
    ELSE LET d == DTMFDecode(buf, ZeroEvent)
             p == processDTMFEvent(r, h, d.ev)
         IN  [w |-> p.w, b |-> buf, n |-> n, err |-> d.err, decoded |-> TRUE,
              decodeErr |-> d.err, processed |-> TRUE, ev |-> d.ev, emit |-> p.emit]

\* Read(b), from the return of n, err := w.reader.Read(b) on: buf is the
\* caller's buffer and h the packet header as the wrapped reader left them.
\* Returns the reader and the buffer after the call, the values returned, and
\* which calls were made: DTMFDecode (decoded, with its error decodeErr) and
\* processDTMFEvent (processed, with its argument ev and whether it wrote the
\* latch).
Read(r, h, buf, n, err) ==
    IF err # "nil"
    THEN [w |-> r, b |-> buf, n |-> n, err |-> err, decoded |-> FALSE,
          decodeErr |-> "nil", processed |-> FALSE, ev |-> ZeroEvent, emit |-> FALSE]
    ELSE IF h.PayloadType # r.codec.PayloadType
    THEN [w |-> r, b |-> buf, n |-> n, err |-> "nil", decoded |-> FALSE,
          decodeErr |-> "nil", processed |-> FALSE, ev |-> ZeroEvent, emit |-> FALSE]
    ELSE LET d == DTMFDecode(buf, ZeroEvent)
             \* the error is logged; processDTMFEvent(ev) is called either way
             p == processDTMFEvent(r, h, d.ev)
         IN  [w |-> p.w, b |-> buf, n |-> n, err |-> "nil", decoded |-> TRUE,
              decodeErr |-> d.err, processed |-> TRUE, ev |-> d.ev, emit |-> p.emit]

\* ------------------------------------------------------- history helpers
\* The packet sequence read as presses.  phase is "fresh" before any packet,
\* "cont" inside the continuation packets of a press, "term1" right after its
\* first terminal packet, "termN" after a redundant terminal packet, and "bad"
\* once the sequence is not N>=1 continuation packets then M>=1 terminal
\* packets per press, each press differing from the one before it in Event or
\* in timestamp.  Event and Timestamp are those of the current press.
BadTrack == [phase |-> "bad", Event |-> 0, Timestamp |-> 0]

NextTrack(ev, ts) ==
    LET same == track.Event = ev.Event /\ track.Timestamp = ts
        to(p) == [phase |-> p, Event |-> ev.Event, Timestamp |-> ts]
    IN  CASE track.phase = "bad"   -> BadTrack
          [] track.phase = "fresh" -> IF ev.EndOfEvent THEN BadTrack ELSE to("cont")
          [] track.phase = "cont"  -> IF ~same THEN BadTrack
                                      ELSE IF ev.EndOfEvent THEN to("term1")
                                      ELSE to("cont")
          [] OTHER                 -> IF same
                                      THEN (IF ev.EndOfEvent THEN to("termN") ELSE BadTrack)
                                      ELSE (IF ev.EndOfEvent THEN BadTrack ELSE to("cont"))

\* A packet that begins a press of a well-formed sequence.
BeginsPress(ev, ts) ==
    /\ NextTrack(ev, ts).phase = "cont"
    /\ track.phase # "cont"

\* The press a packet belongs to, as the reader names presses: a packet whose
\* Event or timestamp differs from r.lastEvent / r.lastTimestamp is the first
\* packet observed for a press.
NextRun(r, ev, ts, emit) ==
    LET n == IF emit THEN 1 ELSE 0
    IN  IF r.lastEvent # ev.Event \/ r.lastTimestamp # ts
        THEN [imm |-> ev.EndOfEvent, emits |-> n, ended |-> ev.EndOfEvent,
              late |-> FALSE]
        ELSE [imm   |-> run.imm,
              emits |-> run.emits + n,
              ended |-> (run.ended \/ ev.EndOfEvent),
              late  |-> (run.late \/ (run.ended /\ ~ev.EndOfEvent))]

\* The first press of the reader's life, by the packets alone: "none" before
\* any packet, "first" while every packet so far carried the Event and the
\* timestamp of the first one (ended: one of them was terminal), "past" after.
NoPacket == [phase |-> "none", Event |-> 0, Timestamp |-> 0, ended |-> FALSE]
PastFirst == [phase |-> "past", Event |-> 0, Timestamp |-> 0, ended |-> FALSE]

NextFirst(ev, ts) ==
    CASE first.phase = "none" ->
            [phase |-> "first", Event |-> ev.Event, Timestamp |-> ts,
             ended |-> ev.EndOfEvent]
      [] first.phase = "first" /\ first.Event = ev.Event /\ first.Timestamp = ts ->
            [first EXCEPT !.ended = @ \/ ev.EndOfEvent]
      [] OTHER -> PastFirst

\* ------------------------------------------------------------------ Init
\* rtp.Header{} and NewRTPDTMFReader(codec, packetReader, nil); no call made yet.
\* ------------------------------------------------------- the ringtone
\* How often one playback writes the ringtone at most.
MaxWrites == 4

\* Goroutines that call loadRingTonePCM.
NumCallers == 2
Callers == 1..NumCallers

\* The codecs they ask a ringtone for.
Codecs == {[Name |-> "PCMU", SampleRate |-> 8000],
           [Name |-> "opus", SampleRate |-> 48000]}
NoCodec == [Name |-> "", SampleRate |-> 0]

\* uuid := fmt.Sprintf("%s-%d", codec.Name, codec.SampleRate): the name, a
\* dash and the decimal digits of the rate; two codecs get one uuid iff they
\* agree on both (no Name here holds a dash followed by digits).
uuid(codec) == <<codec.Name, "-", codec.SampleRate>>
UUIDs == {uuid(c) : c \in Codecs}

\* A []byte: its content is a function of the sample rate, alloc tells one
\* allocation from another.  NoBuffer is the nil slice.
NoBuffer == [sampleRate |-> 0, alloc |-> 0]

\* generateRingTonePCM(sampleRate): a new buffer, the n-th one allocated.
generateRingTonePCM(sampleRate, n) == [sampleRate |-> sampleRate, alloc |-> n]

\* A goroutine outside loadRingTonePCM.
NoCall == [pc |-> "idle", codec |-> NoCodec, pcmBytes |-> NoBuffer, ret |-> NoBuffer]

\* An AudioRingtone on which PlayBackground was not called yet.
NoPlayback ==
    [pc        |-> "new",      \* PlayBackground: new, started, failed
     cancelled |-> FALSE,      \* ctx
     wg        |-> 0,          \* the WaitGroup counter
     play      |-> "none",     \* the goroutine: none, WriteAll, select, finished
     tick      |-> FALSE,      \* a value is waiting in t.C
     writes    |-> 0,          \* calls of media.WriteAll so far
     late      |-> 0,          \* those begun after ctx was cancelled
     playErr   |-> "nil",
     stop      |-> "none",     \* the stop function: none, ready, StopRTP, Wait,
                               \* StartRTP, returned
     ret       |-> "nil"]      \* what stop returned

Init ==
    /\ ringtones = [k \in UUIDs |-> NoBuffer]
    /\ calls = [g \in Callers |-> NoCall]
    /\ generated = [k \in UUIDs |-> 0]
    /\ bg = NoPlayback
    /\ w = NewRTPDTMFReader([PayloadType |-> DTMFPayloadType], <<>>)
    /\ hdr = [PayloadType |-> 0, Timestamp |-> 0]
    /\ b = <<>>
    /\ ret = [n |-> 0, err |-> "nil"]
    /\ inner = [n |-> 0, err |-> "nil", b |-> <<>>]
    /\ op = [name |-> "new"]
    /\ emitted = <<>>
    /\ unread = 0
    /\ detected = <<>>
    /\ polled = TRUE
    /\ track = [phase |-> "fresh", Event |-> 0, Timestamp |-> 0]
    /\ pressed = <<>>
    /\ run = [imm |-> FALSE, emits |-> 0, ended |-> FALSE, late |-> FALSE]
    /\ first = NoPacket
    /\ \E minDuration \in MinDurations :
          w2 = NewRTPDTMFReader([PayloadType |-> DTMFPayloadType], minDuration)
    /\ seen = {}
    /\ rd = [pc |-> "idle", dtmf |-> 0, isSet |-> FALSE, saw |-> 0]
    /\ wr = [pc |-> "idle", rune |-> 0]

\* --------------------------------------------------------------- actions
\* The test loops: packetReader.PacketHeader.Timestamp = ts;
\* r.processDTMFEvent(ev).
Process(ev, ts) ==
    \E h \in {[hdr EXCEPT !.Timestamp = ts]} :
    \E r \in {processDTMFEvent(w, h, ev)} :
        /\ r.emit => Len(emitted) < MaxEmit
        /\ hdr' = h
        /\ w' = r.w
        /\ op' = [name       |-> "processDTMFEvent",
                  Event      |-> ev.Event,
                  EndOfEvent |-> ev.EndOfEvent,
                  same       |-> (w.lastEvent = ev.Event /\ w.lastTimestamp = ts),
                  preEnd     |-> w.endProcessed,
                  emit       |-> r.emit]
        /\ emitted' = IF r.emit THEN Append(emitted, DTMFToRune(ev.Event)) ELSE emitted
        /\ unread' = IF r.emit THEN unread + 1 ELSE unread
        /\ polled' = (polled /\ op.name # "processDTMFEvent")
        /\ track' = NextTrack(ev, ts)
        /\ pressed' = IF track'.phase = "bad" THEN <<>>
                      ELSE IF BeginsPress(ev, ts) THEN Append(pressed, ev.Event)
                      ELSE pressed
        /\ run' = NextRun(w, ev, ts, r.emit)
        /\ first' = NextFirst(ev, ts)
        /\ UNCHANGED <<b, ret, inner, detected>>
        /\ UNCHANGED others
        /\ UNCHANGED ringvars

\* The test loops: dtmf, set := r.ReadDTMF(); if set { detected.WriteRune(dtmf) }.
Poll ==
    \E r \in {ReadDTMF(w)} :
        /\ w' = r.w
        /\ op' = [name |-> "ReadDTMF", dtmf |-> r.dtmf, isSet |-> r.isSet,
                  pending |-> unread, after |-> op.name]
        /\ unread' = 0
        /\ detected' = IF r.isSet THEN Append(detected, r.dtmf) ELSE detected
        /\ polled' = (polled /\ op.name = "processDTMFEvent")
        /\ UNCHANGED <<hdr, b, ret, inner, emitted, track, pressed, run, first>>
        /\ UNCHANGED others
        /\ UNCHANGED ringvars

Next ==
    \/ \E ev \in DTMFEvents, ts \in Timestamps : Process(ev, ts)
    \/ Poll

Spec == Init /\ [][Next]_vars

\* ------------------------------------------------- the streaming adapter
Min(x, y) == IF x <= y THEN x ELSE y
Zeros(k) == [i \in 1..k |-> 0]

\* Payloads the wrapped reader delivers: whole telephone-events and a
\* truncated one.
Payloads ==
    {DTMFEncode(ev) : ev \in {e \in DTMFEvents : e.Duration = 160 /\ e.Event # InvalidEvent}}
        \cup {<<1, 138>>}

\* The buffers a caller may pass: the one of the last call again, or a new one.
CallerBuffers == {Zeros(k) : k \in BufSizes} \cup (IF b = <<>> THEN {} ELSE {b})

\* w.reader.Read(bIn) copying payload pl: the bytes copied and the buffer after.
Copied(bIn, pl) == Min(Len(pl), Len(bIn))
Filled(bIn, pl) ==
    [i \in 1..Len(bIn) |-> IF i <= Copied(bIn, pl) THEN pl[i] ELSE bIn[i]]

\* One call of RTPDtmfReader.Read(bIn).  The wrapped reader copies a packet's
\* payload pl into bIn and returns (n, e); when it succeeds the packet reader
\* holds the packet's header (pt, ts).
ReadCall(bIn, pl, pt, ts, e) ==
    \E h \in {IF e = "nil" THEN [PayloadType |-> pt, Timestamp |-> ts] ELSE hdr},
       n0 \in {Copied(bIn, pl)}, bW \in {Filled(bIn, pl)} :
    \E r \in {Read(w, h, bW, n0, e)} :
        /\ r.emit => Len(emitted) < MaxEmit
        /\ inner' = [n |-> n0, err |-> e, b |-> bW]
        /\ hdr' = h
        /\ w' = r.w
        /\ b' = r.b
        /\ ret' = [n |-> r.n, err |-> r.err]
        /\ op' = [name      |-> "Read",
                  decoded   |-> r.decoded,
                  decodeErr |-> r.decodeErr,
                  processed |-> r.processed,
                  Event     |-> r.ev.Event,
                  EndOfEvent |-> r.ev.EndOfEvent,
                  same      |-> (w.lastEvent = r.ev.Event /\ w.lastTimestamp = h.Timestamp),
                  preEnd    |-> w.endProcessed,
                  emit      |-> r.emit]
        /\ emitted' = IF r.emit THEN Append(emitted, DTMFToRune(r.ev.Event)) ELSE emitted
        /\ unread' = IF r.emit THEN unread + 1 ELSE unread
        /\ run' = IF r.processed THEN NextRun(w, r.ev, h.Timestamp, r.emit) ELSE run
        /\ UNCHANGED <<detected, polled, track, pressed, first>>
        /\ UNCHANGED others
        /\ UNCHANGED ringvars

\* A read that succeeds delivers a packet; a read that fails leaves the header
\* of the packet before it.
NextRead ==
    \/ \E bIn \in CallerBuffers, pl \in Payloads, pt \in PayloadTypes,
          ts \in ReadTimestamps : ReadCall(bIn, pl, pt, ts, "nil")
    \/ \E bIn \in CallerBuffers, pl \in Payloads, e \in ReadErrors \ {"nil"} :
          ReadCall(bIn, pl, hdr.PayloadType, hdr.Timestamp, e)

SpecRead == Init /\ [][NextRead]_vars

\* ------------------------------------------------------ claim formulas
Runes(digits) == [i \in 1..Len(digits) |-> DTMFToRune(digits[i])]
Front(q) == SubSeq(q, 1, Len(q) - 1)
Last(q) == q[Len(q)]
IsProcess(o) == o.name = "processDTMFEvent"
IsReadDTMF(o) == o.name = "ReadDTMF"
WellFormed == track.phase \in {"cont", "term1", "termN"}

\* C1: on a fresh reader, one press of N>=1 continuation packets then M>=1
\* terminal packets (one digit, one timestamp), polled with ReadDTMF after
\* every packet: the only ReadDTMF that returns isSet = true is the one right
\* after the first terminal packet, and it returns DTMFToRune(digit).
C1_SinglePressDetectedOnce ==
    (polled /\ WellFormed /\ Len(pressed) = 1 /\ IsReadDTMF(op)) =>
        /\ op.isSet <=> track.phase = "term1"
        /\ op.isSet => op.dtmf = DTMFToRune(track.Event)
        /\ detected = IF track.phase = "cont" THEN <<>>
                      ELSE <<DTMFToRune(track.Event)>>

\* C1 witness: a single press of digit 1 polled through its continuation
\* packets and at least two terminal packets, with its one detection made.
C1_Witness ==
    /\ polled /\ Len(pressed) = 1 /\ track.phase = "termN"
    /\ IsReadDTMF(op) /\ ~op.isSet
    /\ track.Event = 1
    /\ detected = <<DTMFToRune(1)>>

\* C2: k presses in arrival order, each N>=1 continuation then M>=1 terminal
\* packets, each differing from the press before in digit or timestamp, polled
\* after every packet: the runes returned with isSet = true are exactly the
\* pressed digits in press order (one per press that reached its terminal
\* packet).
C2_PressesDetectedInOrder ==
    (polled /\ WellFormed /\ IsReadDTMF(op)) =>
        detected = Runes(IF track.phase = "cont" THEN Front(pressed) ELSE pressed)

\* C2 witness: digit 1 pressed three times with changing timestamps gives "111".
C2_Witness ==
    /\ polled /\ WellFormed /\ IsReadDTMF(op)
    /\ pressed = <<1, 1, 1>>
    /\ detected = <<49, 49, 49>>

\* C3: a terminal packet whose digit and timestamp equal lastEvent and
\* lastTimestamp while endProcessed is already true changes nothing in the
\* reader and adds no detection.
C3_DuplicateEndIsNoOp ==
    [][ ( /\ IsProcess(op')
          /\ op'.EndOfEvent
          /\ op'.Event = w.lastEvent
          /\ hdr'.Timestamp = w.lastTimestamp
          /\ w.endProcessed )
        => ( w' = w /\ ~op'.emit /\ emitted' = emitted /\ unread' = unread ) ]_vars

\* C3 witness: a redundant terminal packet arrived after the detection of its
\* press was already read, and the latch stayed clear.
C3_Witness ==
    /\ IsProcess(op) /\ op.EndOfEvent /\ op.same /\ op.preEnd
    /\ ~w.dtmfSet
    /\ Len(emitted) = 1 /\ detected = emitted

\* C4: when the first packet observed for a press (digit or timestamp differs
\* from lastEvent / lastTimestamp) is already terminal, that one call sets the
\* latch to DTMFToRune(digit) with dtmfSet and endProcessed true, the next
\* ReadDTMF returns the digit, and the press writes the latch once however many
\* terminal packets follow.
C4_ImmediateEndDetected ==
    [][ /\ ( /\ IsProcess(op')
             /\ op'.EndOfEvent
             /\ (op'.Event # w.lastEvent \/ hdr'.Timestamp # w.lastTimestamp) )
           => ( /\ op'.emit
                /\ w'.dtmf = DTMFToRune(op'.Event)
                /\ w'.dtmfSet
                /\ w'.endProcessed
                /\ w'.lastEvent = op'.Event
                /\ w'.lastTimestamp = hdr'.Timestamp )
        /\ ( /\ IsProcess(op) /\ op.EndOfEvent /\ ~op.same
             /\ IsReadDTMF(op') )
           => ( op'.isSet /\ op'.dtmf = DTMFToRune(op.Event) )
        /\ run'.imm => run'.emits = 1 ]_vars

\* C4 witness: a press that began with a terminal packet, was read, and then
\* received a further terminal packet.
C4_Witness ==
    /\ run.imm /\ run.emits = 1
    /\ IsProcess(op) /\ op.EndOfEvent /\ op.same /\ op.preEnd
    /\ w.lastEvent = 0 /\ w.lastTimestamp = 1000
    /\ detected = <<DTMFToRune(0)>>
    /\ emitted = detected

\* C6: ReadDTMF returns the current (dtmf, dtmfSet) and leaves dtmfSet false;
\* a ReadDTMF with no latch write since the previous ReadDTMF returns
\* isSet = false.
C6_ReadAndClear ==
    [][ IsReadDTMF(op') =>
          /\ op'.dtmf = w.dtmf
          /\ op'.isSet = w.dtmfSet
          /\ ~w'.dtmfSet
          /\ w' = [w EXCEPT !.dtmfSet = FALSE]
          /\ (unread = 0 => ~op'.isSet)
          /\ (IsReadDTMF(op) => ~op'.isSet) ]_vars

\* C6 witness: a ReadDTMF right after the ReadDTMF that returned a detection.
C6_Witness ==
    /\ IsReadDTMF(op) /\ op.after = "ReadDTMF"
    /\ ~op.isSet /\ op.pending = 0
    /\ Len(detected) = 1 /\ emitted = detected

\* C9: the latch is one slot, last detection wins: a ReadDTMF returns at most
\* one rune; when latch writes happened since the previous ReadDTMF it returns
\* the rune of the last of them with isSet = true and clears the latch, and
\* the runes written before that one are never returned.
C9_LastDetectedWins ==
    [][ IsReadDTMF(op') =>
          /\ ~w'.dtmfSet
          /\ IF unread >= 1
             THEN /\ op'.isSet
                  /\ op'.dtmf = Last(emitted)
                  /\ detected' = Append(detected, Last(emitted))
             ELSE /\ ~op'.isSet
                  /\ detected' = detected ]_vars

\* C9 witness: press A (digit 0) and press B (digit 1) both wrote the latch
\* before one ReadDTMF, which returned B's rune only.
C9_Witness ==
    /\ IsReadDTMF(op) /\ op.pending = 2 /\ op.isSet
    /\ emitted = <<DTMFToRune(0), DTMFToRune(1)>>
    /\ detected = <<DTMFToRune(1)>>

\* C10: with ReadDTMF called exactly once after every processDTMFEvent call,
\* for any packet sequence the runes returned with isSet = true are the runes
\* written to the latch, in order, none lost and none repeated.
C10_PolledNothingLost ==
    polled =>
        detected = IF IsProcess(op) /\ op.emit THEN Front(emitted) ELSE emitted

\* C10 witness: a packet sequence that is not a clean sequence of presses,
\* polled after every packet, with three detections made.
C10_Witness ==
    /\ polled /\ IsReadDTMF(op)
    /\ track.phase = "bad"
    /\ Len(emitted) = 3 /\ detected = emitted

\* ------------------------------------------ claim formulas, the adapter
IsRead(o) == o.name = "Read"

\* C5: a Read of a packet of the DTMF payload type whose payload fails to
\* decode skips detection: lastEvent, lastTimestamp, endProcessed, dtmf and
\* dtmfSet are after the Read what they were before it, no latch write
\* happens, and Read returns (n, nil).
C5_DecodeErrorSkipsDetection ==
    [][ (IsRead(op') /\ op'.decoded /\ op'.decodeErr # "nil")
        => ( /\ w' = w
             /\ emitted' = emitted
             /\ ret' = [n |-> inner'.n, err |-> "nil"] ) ]_vars

\* C7: a Read of a packet whose header PayloadType differs from
\* codec.PayloadType calls neither DTMFDecode nor processDTMFEvent and leaves
\* the reader unchanged, whatever the payload bytes and the timestamp.
C7_OtherPayloadTypeIgnored ==
    [][ (IsRead(op') /\ hdr'.PayloadType # w.codec.PayloadType)
        => ( /\ ~op'.decoded
             /\ ~op'.processed
             /\ w' = w
             /\ emitted' = emitted ) ]_vars

\* C7 witness: an audio packet (payload type 0, timestamp 1000) whose bytes
\* read as a terminal event of digit 1 was read by a fresh reader.
C7_Witness ==
    /\ IsRead(op) /\ ~op.decoded
    /\ ret = [n |-> 4, err |-> "nil"]
    /\ hdr = [PayloadType |-> 0, Timestamp |-> 1000]
    /\ b = <<1, 138, 0, 160, 0>>
    /\ w = NewRTPDTMFReader([PayloadType |-> DTMFPayloadType], <<>>)

\* C8: Read passes the wrapped reader's Read through: it returns the same n
\* and the same error, leaves the buffer as the wrapped reader left it, and
\* when the wrapped reader returns an error (also with n > 0) it leaves the
\* reader untouched.
C8_ReadIsPassthrough ==
    [][ IsRead(op') =>
          /\ ret'.n = inner'.n
          /\ ret'.err = inner'.err
          /\ b' = inner'.b
          /\ inner'.err # "nil" =>
                ( /\ w' = w /\ emitted' = emitted
                  /\ ~op'.decoded /\ ~op'.processed ) ]_vars

\* C8 witness: in the middle of a press of digit 0 the wrapped reader returned
\* 4 bytes (a terminal event of digit 1) together with an error.
C8_Witness ==
    /\ IsRead(op)
    /\ inner = [n |-> 4, err |-> "EOF", b |-> <<1, 138, 0, 160, 0>>]
    /\ ret = [n |-> 4, err |-> "EOF"]
    /\ b = inner.b
    /\ hdr.PayloadType = DTMFPayloadType
    /\ w.lastEvent = 0 /\ ~w.endProcessed /\ ~w.dtmfSet

\* ------------------------------------- claim formulas, the detector (2)
\* The packet of the step is the first one observed for a press.
NewPress == op'.Event # w.lastEvent \/ hdr'.Timestamp # w.lastTimestamp

\* C12: endProcessed goes from true to false only in a processDTMFEvent call
\* whose digit differs from lastEvent or whose timestamp differs from
\* lastTimestamp; a packet of the same press and ReadDTMF never clear it; and a
\* new-press call clears it before it looks at its own end flag, so that it
\* ends up equal to that flag.
C12_EndProcessedResetOnNewPress ==
    [][ /\ (w.endProcessed /\ ~w'.endProcessed) => (IsProcess(op') /\ NewPress)
        /\ (IsProcess(op') /\ NewPress) => (w'.endProcessed = op'.EndOfEvent)
        /\ (IsProcess(op') /\ ~NewPress /\ w.endProcessed) => w'.endProcessed
        /\ IsReadDTMF(op') => (w'.endProcessed = w.endProcessed) ]_vars

\* C12 witness: a continuation packet of a new press arrived while the end of
\* the press before it was processed, and cleared endProcessed.
C12_Witness ==
    /\ IsProcess(op) /\ ~op.same /\ op.preEnd /\ ~op.EndOfEvent
    /\ ~w.endProcessed
    /\ Len(emitted) = 1

\* C14: packets that all carry one digit and one timestamp, with their
\* EndOfEvent flags in any order, write the latch at most once, and once iff
\* one of them is terminal; a continuation packet after the terminal one does
\* not re-arm detection.
C14_OnePressOneDetection ==
    run.emits = IF run.ended THEN 1 ELSE 0

\* C14 witness: a press got a terminal packet, then a continuation packet,
\* then a terminal packet again, and wrote the latch once.
C14_Witness ==
    /\ run.late /\ run.emits = 1
    /\ IsProcess(op) /\ op.EndOfEvent /\ op.same /\ op.preEnd
    /\ Len(emitted) = 1

\* C16: a packet with EndOfEvent = false never writes the latch: dtmf and
\* dtmfSet stay as they are; the first packet of a press only sets lastEvent,
\* lastTimestamp and clears endProcessed, a continuation packet of the
\* current press changes nothing; so a press that gets no terminal packet
\* yields no symbol.
C16_ContinuationNeverDetects ==
    [][ /\ (IsProcess(op') /\ ~op'.EndOfEvent) =>
              /\ ~op'.emit
              /\ emitted' = emitted
              /\ w'.dtmf = w.dtmf
              /\ w'.dtmfSet = w.dtmfSet
              /\ IF NewPress
                 THEN w' = [w EXCEPT !.lastEvent = op'.Event,
                                     !.lastTimestamp = hdr'.Timestamp,
                                     !.endProcessed = FALSE]
                 ELSE w' = w
        /\ ~run'.ended => run'.emits = 0 ]_vars

\* C16 witness: the continuation packet of a new press arrived while the
\* symbol of the press before it was still unread, and left it in the latch.
C16_Witness ==
    /\ IsProcess(op) /\ ~op.EndOfEvent /\ ~op.same
    /\ w.lastEvent = 1 /\ ~w.endProcessed
    /\ w.dtmfSet /\ w.dtmf = DTMFToRune(0)
    /\ unread = 1

\* C18: ReadDTMF changes dtmfSet only; a packet processed after a ReadDTMF
\* writes the latch iff it would have without that ReadDTMF, and leaves the
\* same lastEvent, lastTimestamp, endProcessed and dtmf.
C18_ReadDTMFChangesOnlyFlag ==
    [][ IsReadDTMF(op') =>
          /\ w'.lastEvent = w.lastEvent
          /\ w'.lastTimestamp = w.lastTimestamp
          /\ w'.endProcessed = w.endProcessed
          /\ w'.dtmf = w.dtmf
          /\ w'.codec = w.codec
          /\ emitted' = emitted
          /\ \A ev \in DTMFEvents, ts \in Timestamps :
                LET h    == [hdr EXCEPT !.Timestamp = ts]
                    with == processDTMFEvent(w', h, ev)
                    sans == processDTMFEvent(w, h, ev)
                IN  /\ with.emit = sans.emit
                    /\ [with.w EXCEPT !.dtmfSet = FALSE]
                         = [sans.w EXCEPT !.dtmfSet = FALSE] ]_vars

\* C18 witness: a ReadDTMF came between the first terminal packet of a press
\* and a redundant one, and the redundant one wrote nothing.
C18_Witness ==
    /\ polled /\ track.phase = "termN"
    /\ IsProcess(op) /\ op.EndOfEvent /\ op.same /\ op.preEnd /\ ~op.emit
    /\ ~w.dtmfSet
    /\ Len(emitted) = 1 /\ detected = emitted

\* C19: whenever endProcessed is true the stored rune is that of lastEvent.
C19_EndProcessedMeansRuneOfLastEvent ==
    w.endProcessed => w.dtmf = DTMFToRune(w.lastEvent)

\* C19 witness: the end of a press of digit 1 is processed and its symbol read.
C19_Witness ==
    /\ w.endProcessed /\ w.lastEvent = 1 /\ w.dtmf = DTMFToRune(1)
    /\ ~w.dtmfSet
    /\ IsProcess(op) /\ op.same
    /\ detected = <<DTMFToRune(0), DTMFToRune(1)>>

\* C20: the values of a fresh reader (lastEvent 255, lastTimestamp 0) swallow
\* no event: whatever the digit and timestamp of the first press, 255 and 0
\* included, its packets write the latch exactly once as soon as one of them
\* is terminal, and not before.
C20_SentinelSwallowsNothing ==
    first.phase = "first" =>
        emitted = IF first.ended THEN <<DTMFToRune(first.Event)>> ELSE <<>>

\* C20 witness: the first packet is terminal with digit 255 and timestamp 0,
\* and a redundant terminal packet followed it.
C20_Witness ==
    /\ first = [phase |-> "first", Event |-> InvalidEvent, Timestamp |-> 0,
                ended |-> TRUE]
    /\ run.imm = FALSE
    /\ IsProcess(op) /\ op.same /\ op.preEnd /\ op.EndOfEvent
    /\ emitted = <<DTMFToRune(InvalidEvent)>>

\* ------------------------------------- claim formulas, the adapter (2)
\* C17: a Read of a packet of the DTMF payload type for which the wrapped
\* reader returned n < 4 bytes is a malformed payload and leaves the detector
\* unchanged, also when the caller's buffer is 4 bytes or longer and holds
\* other bytes beyond n.
C17_ShortReadIsMalformed ==
    [][ ( /\ IsRead(op')
          /\ inner'.err = "nil"
          /\ hdr'.PayloadType = w.codec.PayloadType
          /\ inner'.n < DTMFMinSize
          /\ Len(inner'.b) >= DTMFMinSize )
        => ( /\ op'.decodeErr # "nil"
             /\ w' = w
             /\ emitted' = emitted ) ]_vars

\* --------------------------------------------------- two readers side by side
\* Durations and volumes the packets of the second reader carry.
PairDurations == {0, 160, 800}
PairVolumes == {0, 10}

\* The packets of the first reader.
PairEvents == {e \in DTMFEvents : e.Event # InvalidEvent /\ e.Duration = 160}

\* The packets that agree with ev on digit and end flag.
Variants(ev) ==
    {[ev EXCEPT !.Duration = d, !.Volume = v] : d \in PairDurations, v \in PairVolumes}

\* One packet for each reader, the same digit, end flag and timestamp:
\* w.processDTMFEvent(ev) and w2.processDTMFEvent(ev2).
ProcessPair(ev, ev2, ts) ==
    \E h \in {[hdr EXCEPT !.Timestamp = ts]} :
    \E r \in {processDTMFEvent(w, h, ev)}, r2 \in {processDTMFEvent(w2, h, ev2)} :
        /\ r.emit => Len(emitted) < MaxEmit
        /\ hdr' = h
        /\ w' = r.w
        /\ w2' = r2.w
        /\ op' = [name       |-> "processDTMFEvent",
                  Event      |-> ev.Event,
                  EndOfEvent |-> ev.EndOfEvent,
                  same       |-> (w.lastEvent = ev.Event /\ w.lastTimestamp = ts),
                  preEnd     |-> w.endProcessed,
                  emit       |-> r.emit,
                  emit2      |-> r2.emit,
                  Duration   |-> ev.Duration,
                  Duration2  |-> ev2.Duration,
                  Volume2    |-> ev2.Volume]
        /\ emitted' = IF r.emit THEN Append(emitted, DTMFToRune(ev.Event)) ELSE emitted
        /\ track' = NextTrack(ev, ts)
        /\ UNCHANGED <<b, ret, inner, unread, detected, polled, pressed, run, first>>
        /\ UNCHANGED <<seen, rd, wr>>
        /\ UNCHANGED ringvars

\* ReadDTMF on each reader.
PollPair ==
    \E r \in {ReadDTMF(w)}, r2 \in {ReadDTMF(w2)} :
        /\ w' = r.w
        /\ w2' = r2.w
        /\ op' = [name |-> "ReadDTMF", dtmf |-> r.dtmf, isSet |-> r.isSet,
                  dtmf2 |-> r2.dtmf, isSet2 |-> r2.isSet]
        /\ UNCHANGED <<hdr, b, ret, inner, emitted, unread, detected, polled,
                       track, pressed, run, first>>
        /\ UNCHANGED <<seen, rd, wr>>
        /\ UNCHANGED ringvars

NextPair ==
    \/ \E ev \in PairEvents, ts \in ReadTimestamps :
          \E ev2 \in Variants(ev) : ProcessPair(ev, ev2, ts)
    \/ PollPair

SpecPair == Init /\ [][NextPair]_vars

\* C11: two readers built with any minDuration arguments and fed packets that
\* agree on digit, EndOfEvent and timestamp but not on Duration and Volume are
\* in the same detector state after every call, write the latch for the same
\* packets and return the same from ReadDTMF; and the first terminal packet of
\* a press writes the latch whatever its Duration: after one continuation
\* packet, or as the only packet of the press.
C11_DurationAndVolumeIgnored ==
    /\ w2 = w
    /\ IsProcess(op) =>
          /\ op.emit2 = op.emit
          /\ (op.EndOfEvent /\ ~(op.same /\ op.preEnd)) => op.emit
          /\ track.phase = "term1" => op.emit
    /\ IsReadDTMF(op) => (op.dtmf2 = op.dtmf /\ op.isSet2 = op.isSet)

\* C11 witness: a press of one continuation and one terminal packet, the
\* terminal packet of duration 160 for one reader and 0 for the other (other
\* volume too), was detected by both.
C11_Witness ==
    /\ IsProcess(op) /\ op.EndOfEvent /\ op.same /\ ~op.preEnd
    /\ track.phase = "term1"
    /\ op.Duration = 160 /\ op.Duration2 = 0 /\ op.Volume2 = 0
    /\ op.emit /\ op.emit2
    /\ w.dtmfSet /\ w2.dtmfSet /\ w2.dtmf = DTMFToRune(1)
    /\ emitted = <<DTMFToRune(1)>>

\* ------------------------------------------- packets in any arrival order
\* The packets of SpecLate: every digit, both end flags, one duration.
LateEvents == {e \in DTMFEvents : e.Duration = 160}

\* packetReader.PacketHeader.Timestamp = ts; r.processDTMFEvent(ev), with the
\* (Event, timestamp) pairs that wrote the latch so far kept in seen.
ProcessLate(ev, ts) ==
    \E h \in {[hdr EXCEPT !.Timestamp = ts]} :
    \E r \in {processDTMFEvent(w, h, ev)} :
        /\ r.emit => Len(emitted) < MaxEmit
        /\ hdr' = h
        /\ w' = r.w
        /\ op' = [name       |-> "processDTMFEvent",
                  Event      |-> ev.Event,
                  EndOfEvent |-> ev.EndOfEvent,
                  same       |-> (w.lastEvent = ev.Event /\ w.lastTimestamp = ts),
                  preEnd     |-> w.endProcessed,
                  emit       |-> r.emit,
                  again      |-> (<<ev.Event, ts>> \in seen)]
        /\ emitted' = IF r.emit THEN Append(emitted, DTMFToRune(ev.Event)) ELSE emitted
        /\ unread' = IF r.emit THEN unread + 1 ELSE unread
        /\ polled' = (polled /\ op.name # "processDTMFEvent")
        /\ run' = NextRun(w, ev, ts, r.emit)
        /\ seen' = IF r.emit THEN seen \cup {<<ev.Event, ts>>} ELSE seen
        /\ UNCHANGED <<b, ret, inner, detected, track, pressed, first>>
        /\ UNCHANGED <<w2, rd, wr>>
        /\ UNCHANGED ringvars

NextLate ==
    \/ \E ev \in LateEvents, ts \in ReadTimestamps : ProcessLate(ev, ts)
    \/ Poll

SpecLate == Init /\ [][NextLate]_vars

\* C15 as stated: no (digit, timestamp) pair writes the latch twice in the
\* life of the reader, whatever packets came in between.
C15_PairDetectedOnce ==
    IsProcess(op) => ~(op.emit /\ op.again)

\* C15: de-duplication is relative to the event before: a packet with the
\* digit and timestamp of lastEvent/lastTimestamp writes the latch only if
\* the end of that press is not yet processed, so the packets of one pair
\* that arrive with no packet of another digit or timestamp between them
\* write the latch at most once; a terminal packet that is a new event always
\* writes it, a late retransmission of an earlier press included.
C15_DedupAgainstLastEvent ==
    [][ IsProcess(op') =>
          /\ (~NewPress /\ w.endProcessed) => ~op'.emit
          /\ (NewPress /\ op'.EndOfEvent) => op'.emit
          /\ run'.emits <= 1 ]_vars

\* C15 witness: the terminal packet of press (1, 0) was detected, a packet of
\* press (0, 1000) came, and the terminal packet of (1, 0), retransmitted
\* late, was detected again.
C15_Witness ==
    /\ IsProcess(op) /\ op.Event = 1 /\ op.EndOfEvent /\ ~op.same
    /\ hdr.Timestamp = 0
    /\ op.again /\ op.emit
    /\ emitted = <<DTMFToRune(1), DTMFToRune(1)>>
    /\ seen = {<<1, 0>>}

\* ------------------------------------ ReadDTMF on another goroutine
\* RTPDtmfReader has no lock: a goroutine in ReadDTMF and one in
\* processDTMFEvent interleave at each access of w.dtmf and w.dtmfSet.
Idle(g) == g.pc = "idle"

\* processDTMFEvent up to its latch writes: lastEvent, lastTimestamp and
\* endProcessed, which only this goroutine touches, are written at once; the
\* writes of w.dtmf and w.dtmfSet follow as steps of their own.
WriterBegin(ev, ts) ==
    /\ Idle(wr)
    /\ \E h \in {[hdr EXCEPT !.Timestamp = ts]} :
       \E r \in {processDTMFEvent(w, h, ev)} :
          /\ r.emit => Len(emitted) < MaxEmit
          /\ hdr' = h
          /\ w' = [r.w EXCEPT !.dtmf = w.dtmf, !.dtmfSet = w.dtmfSet]
          /\ wr' = IF r.emit THEN [pc |-> "dtmf", rune |-> r.w.dtmf] ELSE wr
    /\ UNCHANGED <<b, ret, inner, op, emitted, unread, detected, polled, track,
                   pressed, run, first, w2, seen, rd>>
    /\ UNCHANGED ringvars

\* w.dtmf = DTMFToRune(ev.Event)
WriterDtmf ==
    /\ wr.pc = "dtmf"
    /\ w' = [w EXCEPT !.dtmf = wr.rune]
    /\ wr' = [wr EXCEPT !.pc = "dtmfSet"]
    /\ UNCHANGED <<hdr, b, ret, inner, op, emitted, unread, detected, polled,
                   track, pressed, run, first, w2, seen, rd>>
    /\ UNCHANGED ringvars

\* w.dtmfSet = true
WriterDtmfSet ==
    /\ wr.pc = "dtmfSet"
    /\ w' = [w EXCEPT !.dtmfSet = TRUE]
    /\ wr' = [pc |-> "idle", rune |-> 0]
    /\ emitted' = Append(emitted, wr.rune)
    /\ UNCHANGED <<hdr, b, ret, inner, op, unread, detected, polled, track,
                   pressed, run, first, w2, seen, rd>>
    /\ UNCHANGED ringvars

\* return w.dtmf, w.dtmfSet: the first operand is evaluated
ReaderDtmf ==
    /\ Idle(rd)
    /\ rd' = [rd EXCEPT !.pc = "dtmf", !.dtmf = w.dtmf]
    /\ UNCHANGED <<w, hdr, b, ret, inner, op, emitted, unread, detected, polled,
                   track, pressed, run, first, w2, seen, wr>>
    /\ UNCHANGED ringvars

\* the second operand is evaluated; saw counts the latch writes made before it
ReaderDtmfSet ==
    /\ rd.pc = "dtmf"
    /\ rd' = [rd EXCEPT !.pc = "dtmfSet", !.isSet = w.dtmfSet, !.saw = Len(emitted)]
    /\ UNCHANGED <<w, hdr, b, ret, inner, op, emitted, unread, detected, polled,
                   track, pressed, run, first, w2, seen, wr>>
    /\ UNCHANGED ringvars

\* the deferred function runs: w.dtmfSet = false; ReadDTMF returns
ReaderDefer ==
    /\ rd.pc = "dtmfSet"
    /\ w' = [w EXCEPT !.dtmfSet = FALSE]
    /\ rd' = [rd EXCEPT !.pc = "idle"]
    /\ detected' = IF rd.isSet THEN Append(detected, rd.dtmf) ELSE detected
    /\ UNCHANGED <<hdr, b, ret, inner, op, emitted, unread, polled, track,
                   pressed, run, first, w2, seen, wr>>
    /\ UNCHANGED ringvars

NextConc ==
    \/ \E ev \in LateEvents, ts \in ReadTimestamps : WriterBegin(ev, ts)
    \/ WriterDtmf
    \/ WriterDtmfSet
    \/ ReaderDtmf
    \/ ReaderDtmfSet
    \/ ReaderDefer

SpecConc == Init /\ [][NextConc]_vars

\* C13: with ReadDTMF and processDTMFEvent on two goroutines, a symbol in the
\* latch is cleared only by a ReadDTMF that returns it with isSet = true:
\* when the deferred w.dtmfSet = false finds dtmfSet true, this ReadDTMF
\* evaluated dtmfSet as true after the last latch write and evaluated dtmf as
\* the rune of that write.
C13_LatchAccessSerialized ==
    [][ (rd.pc = "dtmfSet" /\ rd'.pc = "idle" /\ w.dtmfSet) =>
            /\ rd.isSet
            /\ rd.saw = Len(emitted)
            /\ rd.dtmf = Last(emitted) ]_vars

\* C21: a ReadDTMF on another goroutine that evaluated w.dtmfSet as true
\* returns the rune of the latch write that set the flag it saw, the last one
\* made before it evaluated w.dtmfSet, never the rune of another press.
C21_ReturnedRuneIsOfLatestWrite ==
    (rd.pc = "dtmfSet" /\ rd.isSet) => rd.dtmf = emitted[rd.saw]

\* ------------------------------------------------- the ringtone cache
\* What the calls of loadRingTonePCM leave alone.
readervars == <<w, hdr, b, ret, inner, op, emitted, unread, detected, polled,
                track, pressed, run, first, w2, seen, rd, wr>>

Total(count) == LET RECURSIVE Sum(_)
                    Sum(K) == IF K = {} THEN 0
                              ELSE LET k == CHOOSE x \in K : TRUE
                                   IN  count[k] + Sum(K \ {k})
                IN  Sum(DOMAIN count)

\* Goroutine g calls loadRingTonePCM(codec).
LoadCall(g, codec) ==
    /\ calls[g].pc \in {"idle", "done"}
    /\ calls' = [calls EXCEPT ![g] = [NoCall EXCEPT !.pc = "Load", !.codec = codec]]
    /\ UNCHANGED <<ringtones, generated, bg>>
    /\ UNCHANGED readervars

\* ringval, exists := ringtones.Load(uuid); if exists { return ringval, nil }
LoadMap(g) ==
    /\ calls[g].pc = "Load"
    /\ LET ringval == ringtones[uuid(calls[g].codec)]
           exists  == ringval # NoBuffer
       IN  calls' = [calls EXCEPT ![g] =
                        IF exists THEN [@ EXCEPT !.pc = "done", !.ret = ringval]
                        ELSE [@ EXCEPT !.pc = "generate"]]
    /\ UNCHANGED <<ringtones, generated, bg>>
    /\ UNCHANGED readervars

\* pcmBytes := generateRingTonePCM(int(codec.SampleRate))
Generate(g) ==
    /\ calls[g].pc = "generate"
    /\ calls' = [calls EXCEPT ![g] =
                    [@ EXCEPT !.pc = "Store",
                              !.pcmBytes = generateRingTonePCM(calls[g].codec.SampleRate,
                                                               Total(generated) + 1)]]
    /\ generated' = [generated EXCEPT ![uuid(calls[g].codec)] = @ + 1]
    /\ UNCHANGED <<ringtones, bg>>
    /\ UNCHANGED readervars

\* ringtones.Store(uuid, pcmBytes); return pcmBytes, nil
Store(g) ==
    /\ calls[g].pc = "Store"
    /\ ringtones' = [ringtones EXCEPT ![uuid(calls[g].codec)] = calls[g].pcmBytes]
    /\ calls' = [calls EXCEPT ![g] = [@ EXCEPT !.pc = "done", !.ret = calls[g].pcmBytes]]
    /\ UNCHANGED <<generated, bg>>
    /\ UNCHANGED readervars

NextCache ==
    \/ \E g \in Callers, codec \in Codecs : LoadCall(g, codec)
    \/ \E g \in Callers : LoadMap(g)
    \/ \E g \in Callers : Generate(g)
    \/ \E g \in Callers : Store(g)

SpecCache == Init /\ [][NextCache]_vars

\* C22: for concurrent loadRingTonePCM calls with one codec Name and
\* SampleRate, generateRingTonePCM runs at most once for that uuid, and the
\* calls that returned for it returned one and the same buffer.
C22_SingleFlight ==
    /\ \A k \in UUIDs : generated[k] <= 1
    /\ \A g, h \in Callers :
          ( /\ calls[g].pc = "done" /\ calls[h].pc = "done"
            /\ uuid(calls[g].codec) = uuid(calls[h].codec) )
          => calls[g].ret = calls[h].ret

\* ---------------------------------------------- background playback
\* What PlayBackground, play and the stop function leave alone.
cachevars == <<ringtones, calls, generated>>

\* Errors of the media session and of media.WriteAll; "timeout" is a
\* net.Error whose Timeout() is true.
RTPErrors == {"nil", "err"}
WriteErrors == {"nil", "timeout", "err"}

\* PlayBackground(): StartRTP(1), and if that succeeds ctx, wg.Add(1), the
\* goroutine running a.play(ctx), and the stop function returned.  play
\* starts with t := time.NewTimer(0), which expires at once.
PlayBackground(err) ==
    /\ bg.pc = "new"
    /\ bg' = IF err # "nil"
             THEN [bg EXCEPT !.pc = "failed", !.ret = err]
             ELSE [bg EXCEPT !.pc = "started", !.wg = 1, !.play = "WriteAll",
                             !.tick = TRUE, !.writes = 1, !.stop = "ready"]
    /\ UNCHANGED cachevars
    /\ UNCHANGED readervars

\* play: _, err := media.WriteAll(...) returns.  An error ends play: playErr
\* is assigned and the deferred wg.Done() runs.  Otherwise t.Reset(4 s): a
\* value of the expired timer still in t.C is dropped or kept, as the Go
\* release the program is built with has it.
PlayWriteAll(err, kept) ==
    /\ bg.play = "WriteAll"
    /\ bg' = IF err # "nil"
             THEN [bg EXCEPT !.play = "finished", !.playErr = err, !.wg = @ - 1]
             ELSE [bg EXCEPT !.play = "select", !.tick = @ /\ kept]
    /\ UNCHANGED cachevars
    /\ UNCHANGED readervars

\* play: select, case <-t.C: a value is in t.C, or the four seconds pass
\* before the context is cancelled; the loop writes the ringtone again.
PlaySelectTimer ==
    /\ bg.play = "select"
    /\ bg.tick \/ ~bg.cancelled
    /\ bg.writes < MaxWrites
    /\ bg' = [bg EXCEPT !.play = "WriteAll", !.tick = FALSE, !.writes = @ + 1,
                        !.late = IF bg.cancelled THEN @ + 1 ELSE @]
    /\ UNCHANGED cachevars
    /\ UNCHANGED readervars

\* play: select, case <-timerCtx.Done(): return timerCtx.Err(); playErr is
\* assigned and the deferred wg.Done() runs.
PlaySelectDone ==
    /\ bg.play = "select"
    /\ bg.cancelled
    /\ bg' = [bg EXCEPT !.play = "finished", !.playErr = "canceled", !.wg = @ - 1]
    /\ UNCHANGED cachevars
    /\ UNCHANGED readervars

\* stop: cancel()
StopCancel ==
    /\ bg.stop = "ready"
    /\ bg' = [bg EXCEPT !.stop = "StopRTP", !.cancelled = TRUE]
    /\ UNCHANGED cachevars
    /\ UNCHANGED readervars

\* stop: if err := a.mediaSession.StopRTP(2, 0); err != nil { return err }
StopStopRTP(err) ==
    /\ bg.stop = "StopRTP"
    /\ bg' = IF err # "nil"
             THEN [bg EXCEPT !.stop = "returned", !.ret = err]
             ELSE [bg EXCEPT !.stop = "Wait"]
    /\ UNCHANGED cachevars
    /\ UNCHANGED readervars

\* stop: wg.Wait()
StopWait ==
    /\ bg.stop = "Wait"
    /\ bg.wg = 0
    /\ bg' = [bg EXCEPT !.stop = "StartRTP"]
    /\ UNCHANGED cachevars
    /\ UNCHANGED readervars

\* stop: StartRTP(2), then nil for a timeout in playErr, else playErr.
StopStartRTP(err) ==
    /\ bg.stop = "StartRTP"
    /\ bg' = [bg EXCEPT !.stop = "returned",
                        !.ret = IF err # "nil" THEN err
                                ELSE IF bg.playErr = "timeout" THEN "nil"
                                ELSE bg.playErr]
    /\ UNCHANGED cachevars
    /\ UNCHANGED readervars

NextPlay ==
    \/ \E err \in RTPErrors : PlayBackground(err)
    \/ \E err \in WriteErrors, kept \in BOOLEAN : PlayWriteAll(err, kept)
    \/ PlaySelectTimer
    \/ PlaySelectDone
    \/ StopCancel
    \/ \E err \in RTPErrors : StopStopRTP(err)
    \/ StopWait
    \/ \E err \in RTPErrors : StopStartRTP(err)

SpecPlay == Init /\ [][NextPlay]_vars

\* C23: when the stop function of PlayBackground has returned, the goroutine
\* PlayBackground started has finished, on the path where StopRTP returns an
\* error too; and once the context is cancelled play begins no further
\* WriteAll.
C23_StopWaitsForPlayback ==
    /\ bg.stop = "returned" => bg.play = "finished"
    /\ bg.late = 0

====
